---- MODULE Spec2Model ----
(***************************************************************************)
(* Model of store/file_index.py: the three file convertors (MTool JSON,    *)
(* XUnity key=value lines, Translator++ sheet) and the import / export     *)
(* operations of FileTranslationIndex.                                     *)
(*                                                                         *)
(* A Python str is a sequence of one-character strings.  A Python dict is  *)
(* a sequence of <<key, value>> pairs with distinct keys, in insertion     *)
(* order.  None is the value Null.                                         *)
(***************************************************************************)
EXTENDS Naturals, Sequences, FiniteSets

VARIABLES
    \* ---- FileTranslationIndex ----
    file_type,      \* self.project.executable_path: the convertor tag
    project_path,   \* self.project_path: absolute path of the source file
    tables,         \* record store: lang -> list of string records
    stats,          \* translation statistics: lang -> [total, translated]
    call,           \* the last public call: its arguments and what it did
    \* ---- a convertor used on its own ----
    cv_type,        \* which convertor class
    cv_phase,       \* "src" | "map" | "out" | "reread" | "raised"
    cv_origin,      \* "file": the map was extracted; "given": handed to save_to
    cv_file,        \* the file at self.fn
    cv_map,         \* the TextMap extracted from cv_file / handed to save_to
    cv_out,         \* the file save_to wrote
    cv_map2         \* the TextMap extracted from cv_out

vars == <<file_type, project_path, tables, stats, call,
          cv_type, cv_phase, cv_origin, cv_file, cv_map, cv_out, cv_map2>>

index_vars == <<file_type, project_path, tables, stats, call>>
conv_vars == <<cv_type, cv_phase, cv_origin, cv_file, cv_map, cv_out, cv_map2>>

\* ------------------------------------------------------------------ bounds

\* Longest XUnity source file, in characters.
MaxFileLen == 4
\* Most entries (JSON members, sheet rows) of an MTool / Translator++ file.
MaxPairs == 2
\* Longest value of a map handed directly to save_to.
MaxValueLen == 3
\* Most lines / members / rows of a source file imported into the index.
MaxEntries == 2
\* Longest project file path after the leading "/".
MaxPathLen == 3

\* ------------------------------------------------------------- characters

LF == "\n"
CR == "\r"
SP == " "
EQ == "="
BS == "\\"

\* None
Null == <<"<None>">>
\* a JSON value that is neither a string nor null (a number)
Num == <<"<number>">>

Whitespace == {SP, LF, CR}

SeqsUpTo(S, n) == UNION {[1..k -> S] : k \in 0..n}

\* ---------------------------------------------------------------- str ops

RECURSIVE lstrip(_)
lstrip(s) ==
    IF s = <<>> THEN <<>>
    ELSE IF Head(s) \in Whitespace THEN lstrip(Tail(s)) ELSE s

RECURSIVE rstrip(_)
rstrip(s) ==
    IF s = <<>> THEN <<>>
    ELSE IF s[Len(s)] \in Whitespace THEN rstrip(SubSeq(s, 1, Len(s) - 1)) ELSE s

\* str.strip()
strip(s) == lstrip(rstrip(s))

\* str.find(c): the first index of c (1-based), 0 when absent
find(s, c) ==
    IF \E i \in 1..Len(s) : s[i] = c
    THEN CHOOSE i \in 1..Len(s) : s[i] = c /\ \A j \in 1..(i - 1) : s[j] # c
    ELSE 0

\* util.strip_or_none: the trimmed text, None when it is None or blank
strip_or_none(v) ==
    IF v = Null THEN Null
    ELSE IF strip(v) = <<>> THEN Null ELSE strip(v)

\* --------------------------------------------------------------- dict ops

Keys(d) == {d[i][1] : i \in 1..Len(d)}

HasKey(d, k) == k \in Keys(d)

\* d[k]
Get(d, k) == d[CHOOSE i \in 1..Len(d) : d[i][1] = k][2]

\* d[k] = v: a present key keeps its place, a new one goes last
DictSet(d, k, v) ==
    IF HasKey(d, k)
    THEN [i \in 1..Len(d) |-> IF d[i][1] = k THEN <<k, v>> ELSE d[i]]
    ELSE Append(d, <<k, v>>)

IsDict(d) == \A i, j \in 1..Len(d) : d[i][1] = d[j][1] => i = j

\* ----------------------------------------------------------------- files

\* A file is text (its characters), a JSON document holding one object (its
\* members in file order, duplicates possible), or a workbook (its rows,
\* the first being the header row).
TextFile(chars) == [kind |-> "text", chars |-> chars]
JsonFile(members) == [kind |-> "json", members |-> members]
SheetFile(rows) == [kind |-> "sheet", rows |-> rows]

\* an existing file of zero bytes
EmptyFile == TextFile(<<>>)

Ok(v) == [ok |-> TRUE, val |-> v]
Raised == [ok |-> FALSE, val |-> <<>>]

\* ---------------------------------------------------------- MToolConvertor

\* json.load of an object: a dict; a repeated member name keeps its first
\* place and takes its last value
RECURSIVE json_object(_, _)
json_object(members, d) ==
    IF members = <<>> THEN d
    ELSE json_object(Tail(members), DictSet(d, Head(members)[1], Head(members)[2]))

\* isinstance(v, str)
IsStr(v) == v # Null /\ v # Num

\* the k != v test of the three get_text_map loops, on the trimmed value
SameAsKey(k, v) == k = v

\* the loop of MToolConvertor.get_text_map over data.items()
RECURSIVE MTool_texts(_, _)
MTool_texts(items, texts) ==
    IF items = <<>> THEN texts
    ELSE LET k == Head(items)[1]
             v == Head(items)[2]
         IN  IF IsStr(v) /\ strip(k) # <<>>
             THEN MTool_texts(Tail(items),
                      DictSet(texts, k,
                          IF SameAsKey(k, strip_or_none(v)) THEN Null
                          ELSE strip_or_none(v)))
             ELSE MTool_texts(Tail(items), texts)

\* MToolConvertor.get_text_map: json.load raises on anything but a JSON
\* document, a file of zero bytes included
MTool_get_text_map(f) ==
    IF f.kind = "json"
    THEN Ok(MTool_texts(json_object(f.members, <<>>), <<>>))
    ELSE Raised

\* MToolConvertor.save_to: json.dump writes None as null
MTool_save_to(tran_map) == Ok(JsonFile(tran_map))

\* --------------------------------------------------------- XUnityConvertor

\* f.readlines() with universal newlines: LF, CR and CR LF each end a line,
\* and each line keeps its terminator as LF
RECURSIVE readlines(_, _)
readlines(s, cur) ==
    IF s = <<>> THEN (IF cur = <<>> THEN <<>> ELSE <<cur>>)
    ELSE IF Head(s) = LF
         THEN <<Append(cur, LF)>> \o readlines(Tail(s), <<>>)
    ELSE IF Head(s) = CR
         THEN <<Append(cur, LF)>> \o
              readlines(IF Len(s) >= 2 /\ s[2] = LF THEN Tail(Tail(s)) ELSE Tail(s), <<>>)
    ELSE readlines(Tail(s), Append(cur, Head(s)))

\* the loop of XUnityConvertor.get_text_map over the lines
RECURSIVE XUnity_texts(_, _)
XUnity_texts(data, texts) ==
    IF data = <<>> THEN texts
    ELSE LET t == rstrip(Head(data))
             pos == find(t, EQ)
             k == SubSeq(t, 1, pos - 1)
             v == strip_or_none(SubSeq(t, pos + 1, Len(t)))
         IN  IF find(Head(data), EQ) # 0 /\ strip(k) # <<>>
             THEN XUnity_texts(Tail(data),
                      DictSet(texts, k, IF SameAsKey(k, v) THEN Null ELSE v))
             ELSE XUnity_texts(Tail(data), texts)

\* XUnityConvertor.get_text_map
XUnity_get_text_map(f) ==
    IF f.kind = "text"
    THEN Ok(XUnity_texts(readlines(f.chars, <<>>), <<>>))
    ELSE Raised

\* v.replace('\n', '\\n').replace('\r', '\\r')
RECURSIVE escape(_)
escape(v) ==
    IF v = <<>> THEN <<>>
    ELSE IF Head(v) = LF THEN <<BS, "n">> \o escape(Tail(v))
    ELSE IF Head(v) = CR THEN <<BS, "r">> \o escape(Tail(v))
    ELSE <<Head(v)>> \o escape(Tail(v))

\* the characters XUnityConvertor.save_to writes for the items
RECURSIVE XUnity_lines(_)
XUnity_lines(items) ==
    IF items = <<>> THEN <<>>
    ELSE Head(items)[1] \o <<EQ>> \o escape(Head(items)[2]) \o <<LF>>
         \o XUnity_lines(Tail(items))

\* XUnityConvertor.save_to: None has no replace(), so a None value raises
XUnity_save_to(tran_map) ==
    IF \E i \in 1..Len(tran_map) : tran_map[i][2] = Null
    THEN Raised
    ELSE Ok(TextFile(XUnity_lines(tran_map)))

\* --------------------------------------------------- TranslatorPPConvertor

\* the loop of TranslatorPPConvertor.get_text_map over zip(df[0], df[1])
RECURSIVE TranslatorPP_texts(_, _)
TranslatorPP_texts(rows, texts) ==
    IF rows = <<>> THEN texts
    ELSE LET old_text == Head(rows)[1]
             new_text == strip_or_none(Head(rows)[2])
         IN  IF strip(old_text) = <<>>
             THEN TranslatorPP_texts(Tail(rows), texts)
             ELSE TranslatorPP_texts(Tail(rows),
                      DictSet(texts, old_text,
                          IF SameAsKey(old_text, new_text) THEN Null ELSE new_text))

\* TranslatorPPConvertor.get_text_map, the outcomes it can have: read_excel
\* raises on a file that is no workbook; the header row is skipped; with no
\* row left the frame may hold no column 0, and df[0] then raises
TranslatorPP_get_text_map(f) ==
    IF f.kind # "sheet" THEN {Raised}
    ELSE IF Len(f.rows) <= 1 THEN {Raised, Ok(<<>>)}
    ELSE {Ok(TranslatorPP_texts(Tail(f.rows), <<>>))}

cols == << <<"Original Text">>, <<"Initial">>, <<"Machine translation">>,
          <<"Better translation">>, <<"Best translation">> >>

\* TranslatorPPConvertor.save_to: a header row, then one row of five cells
\* per item; None and the three review columns are empty cells
TranslatorPP_save_to(tran_map) ==
    Ok(SheetFile(<<cols>> \o
        [i \in 1..Len(tran_map) |->
            <<tran_map[i][1],
              IF tran_map[i][2] = Null THEN <<>> ELSE tran_map[i][2],
              <<>>, <<>>, <<>> >>]))

\* -------------------------------------------------------------- _CONVERTORS

available_convertors == {"mt", "xu", "tp"}

\* _CONVERTORS[tag][0](fn).get_text_map(): the set of possible outcomes
get_text_map(tag, f) ==
    IF tag = "mt" THEN {MTool_get_text_map(f)}
    ELSE IF tag = "xu" THEN {XUnity_get_text_map(f)}
    ELSE TranslatorPP_get_text_map(f)

\* _CONVERTORS[tag][0](fn).save_to(fn, tran_map)
save_to(tag, tran_map) ==
    IF tag = "mt" THEN MTool_save_to(tran_map)
    ELSE IF tag = "xu" THEN XUnity_save_to(tran_map)
    ELSE TranslatorPP_save_to(tran_map)

\* ------------------------------------------------------------ record store

\* store.misc.block_of
block_of(type, what, code, new_code) ==
    [type |-> type, what |-> what, code |-> code, new_code |-> new_code]

\* store.misc.ast_of
ast_of(language, filename, linenumber, identifier, block) ==
    [language |-> language, filename |-> filename, linenumber |-> linenumber,
     identifier |-> identifier, block |-> block]

\* TranslationIndex.drop_translations: every record of lang is deleted
drop_translations(tbls, lang) == [tbls EXCEPT ![lang] = <<>>]

\* dao.add_batch on the string table of lang
add_batch(tbls, lang, records) == [tbls EXCEPT ![lang] = @ \o records]

\* TranslationIndex.exists_lang: lang has stored records
exists_lang(tbls, lang) == tbls[lang] # <<>>

\* TranslationIndex._list_translations: the string records of lang
list_translations(tbls, lang) == tbls[lang]

\* the number of records of a table that carry a translation
RECURSIVE count_translated(_)
count_translated(records) ==
    IF records = <<>> THEN 0
    ELSE (IF \E i \in 1..Len(Head(records).block) :
                 Head(records).block[i].new_code # Null
          THEN 1 ELSE 0) + count_translated(Tail(records))

\* TranslationIndex.update_translation_stats: the counts of lang, recomputed
update_translation_stats(sts, tbls, lang) ==
    [sts EXCEPT ![lang] = [total |-> Len(tbls[lang]),
                           translated |-> count_translated(tbls[lang])]]

\* util.assert_not_blank
is_blank(text) == strip(text) = <<>>

\* ---------------------------------------------------- FileTranslationIndex

HasTranslation(entry) == entry[2] # Null

\* a slip: translated_only is honoured and untranslated texts get no record
string_data_translated_only(lang, path, data) ==
    LET kept == SelectSeq(data, HasTranslation)
    IN  [i \in 1..Len(kept) |->
            ast_of(lang, path, 0, kept[i][1],
                   <<block_of("String", kept[i][1], <<>>, kept[i][2])>>)]

\* the string_data list built by import_translations from data.items()
string_data(lang, path, data) ==
    [i \in 1..Len(data) |->
        ast_of(lang, path, 0, data[i][1],
               <<block_of("String", data[i][1], <<>>, data[i][2])>>)]

\* a slip: the old records of lang are dropped before the map is looked at
import_tables_drop_first(tbls, lang, path, data) ==
    IF data # <<>>
    THEN add_batch(drop_translations(tbls, lang), lang, string_data(lang, path, data))
    ELSE drop_translations(tbls, lang)

\* a slip: the new records are added to the old ones
import_tables_merge(tbls, lang, path, data) ==
    IF data # <<>>
    THEN add_batch(tbls, lang, string_data(lang, path, data))
    ELSE tbls

\* the record store after import_translations has extracted data
import_tables(tbls, lang, path, data) ==
    IF data # <<>>
    THEN add_batch(drop_translations(tbls, lang), lang, string_data(lang, path, data))
    ELSE tbls

\* the inner loop of export_translations over the blocks of one record
RECURSIVE export_blocks(_, _, _)
export_blocks(blocks, translated_only, new_string_data) ==
    IF blocks = <<>> THEN new_string_data
    ELSE LET b == Head(blocks)
         IN  export_blocks(Tail(blocks), translated_only,
                 IF b.new_code # Null
                 THEN DictSet(new_string_data, b.what, b.new_code)
                 ELSE IF ~translated_only
                      THEN DictSet(new_string_data, b.what, b.what)
                      ELSE new_string_data)

\* the outer loop of export_translations over the records
RECURSIVE export_records(_, _, _)
export_records(records, translated_only, new_string_data) ==
    IF records = <<>> THEN new_string_data
    ELSE export_records(Tail(records), translated_only,
             export_blocks(Head(records).block, translated_only, new_string_data))

\* a slip: the flag is ignored and every untranslated text is exported
export_map_all(records, translated_only) ==
    export_records(records, FALSE, <<>>)

\* new_string_data of export_translations
export_map(records, translated_only) ==
    export_records(records, translated_only, <<>>)

\* the largest index of c in p, 0 when absent: str.rfind
rfind(p, c) ==
    IF \E i \in 1..Len(p) : p[i] = c
    THEN CHOOSE i \in 1..Len(p) : p[i] = c /\ \A j \in (i + 1)..Len(p) : p[j] # c
    ELSE 0

\* os.path.splitext: the extension starts at the last dot of the last
\* component, unless only dots precede it there
splitext(p) ==
    LET sepIndex == rfind(p, "/")
        dotIndex == rfind(p, ".")
    IN  IF dotIndex > sepIndex
           /\ \E i \in (sepIndex + 1)..(dotIndex - 1) : p[i] # "."
        THEN <<SubSeq(p, 1, dotIndex - 1), SubSeq(p, dotIndex, Len(p))>>
        ELSE <<p, <<>> >>

\* a slip: the language tag is left out of the name
save_fn_same(path, lang) == splitext(path)[1] \o splitext(path)[2]

\* save_fn of export_translations
save_fn(path, lang) ==
    splitext(path)[1] \o <<"_">> \o lang \o splitext(path)[2]

\* a slip: the file is written although there is nothing to export
export_saves_always(type, path, tbls, lang, translated_only) ==
    IF ~exists_lang(tbls, lang) THEN <<>>
    ELSE LET new_string_data == export_map(list_translations(tbls, lang), translated_only)
         IN  <<[fn |-> save_fn(path, lang), tran_map |-> new_string_data,
                result |-> save_to(type, new_string_data)]>>

\* the save_to calls export_translations makes: none on either early return
export_saves(type, path, tbls, lang, translated_only) ==
    IF ~exists_lang(tbls, lang) THEN <<>>
    ELSE LET new_string_data == export_map(list_translations(tbls, lang), translated_only)
         IN  IF Len(new_string_data) = 0 THEN <<>>
             ELSE <<[fn |-> save_fn(path, lang), tran_map |-> new_string_data,
                     result |-> save_to(type, new_string_data)]>>

\* ------------------------------------------------------------------ inputs

\* the language tags the index is called with; the last one is blank
Langs == {<<"e">>, <<"z">>}
LangArgs == Langs \cup {<<SP>>}

\* absolute paths of a file: no empty, "." or ".." component
PathChars == {"a", ".", "/"}

IsFilePath(s) ==
    /\ s # <<>>
    /\ s[1] # "/"
    /\ s[Len(s)] # "/"
    /\ \A i \in 1..(Len(s) - 1) : ~(s[i] = "/" /\ s[i + 1] = "/")
    /\ \A i \in 1..Len(s) : \A j \in i..Len(s) :
          ( /\ (i = 1 \/ s[i - 1] = "/")
            /\ (j = Len(s) \/ s[j + 1] = "/")
            /\ \A m \in i..j : s[m] # "/" )
          => SubSeq(s, i, j) \notin {<<".">>, <<".", ".">>}

ProjectPaths ==
    {<<"/">> \o s : s \in {t \in SeqsUpTo(PathChars, MaxPathLen) : IsFilePath(t)}}

\* the pairs a source file handed to the index is made of
IndexEntries ==
    {<< <<"a">>, <<"a">> >>, << <<"a">>, <<"b">> >>,
     << <<"b">>, <<"b">> >>, << <<SP>>, <<"a">> >>}

RECURSIVE key_value_lines(_)
key_value_lines(entries) ==
    IF entries = <<>> THEN <<>>
    ELSE Head(entries)[1] \o <<EQ>> \o Head(entries)[2] \o <<LF>>
         \o key_value_lines(Tail(entries))

\* a source file of the given format holding the entries
source_file(tag, entries) ==
    IF tag = "mt" THEN JsonFile(entries)
    ELSE IF tag = "xu" THEN TextFile(key_value_lines(entries))
    ELSE SheetFile(<<cols>> \o entries)

IndexFiles(tag) ==
    {EmptyFile} \cup {source_file(tag, e) : e \in SeqsUpTo(IndexEntries, MaxEntries)}

\* what get_text_map can return to import_translations, per format
ImportOutcomes_mt == UNION {get_text_map("mt", f) : f \in IndexFiles("mt")}
ImportOutcomes_xu == UNION {get_text_map("xu", f) : f \in IndexFiles("xu")}
ImportOutcomes_tp == UNION {get_text_map("tp", f) : f \in IndexFiles("tp")}

ImportOutcomes(tag) ==
    IF tag = "mt" THEN ImportOutcomes_mt
    ELSE IF tag = "xu" THEN ImportOutcomes_xu
    ELSE ImportOutcomes_tp

\* the files a convertor is run on
XUChars == {"a", "b", SP, EQ, LF, CR}
KeyTexts == {<<"a">>, <<"b">>, <<"a", SP>>, <<SP>>}
CellTexts == {<<"a">>, <<"b">>, <<"a", SP>>, <<>>}
JsonValues == CellTexts \cup {Null, Num}

XUFiles == {TextFile(s) : s \in SeqsUpTo(XUChars, MaxFileLen)}
MTFiles ==
    {EmptyFile} \cup {JsonFile(m) : m \in SeqsUpTo(KeyTexts \X JsonValues, MaxPairs)}
TPFiles ==
    {EmptyFile} \cup
    {SheetFile(<<cols>> \o r) : r \in SeqsUpTo(KeyTexts \X CellTexts, MaxPairs)}

SourceFiles(tag) ==
    IF tag = "mt" THEN MTFiles ELSE IF tag = "xu" THEN XUFiles ELSE TPFiles

\* the maps save_to is handed directly: one text with a value that may
\* hold line breaks
GivenValues == SeqsUpTo({"a", "b", LF, CR}, MaxValueLen) \ {<<>>}
GivenMaps == {<< <<k, v>> >> : k \in {<<"a">>}, v \in GivenValues}

\* ----------------------------------------------------------- index actions

\* call.data is the TextMap import_translations extracted, Null when none was;
\* call.existed tells whether lang had stored records when the call began
NoCall ==
    [op |-> "none", lang |-> <<>>, translated_only |-> TRUE, outcome |-> "none",
     existed |-> FALSE, data |-> Null, saved |-> <<>>]

IndexIdle ==
    /\ file_type = "mt"
    /\ project_path = <<"/", "a">>
    /\ tables = [l \in Langs |-> <<>>]
    /\ stats = [l \in Langs |-> [total |-> 0, translated |-> 0]]
    /\ call = NoCall

ConvIdle ==
    /\ cv_type = "mt"
    /\ cv_phase = "idle"
    /\ cv_origin = "none"
    /\ cv_file = EmptyFile
    /\ cv_map = <<>>
    /\ cv_out = EmptyFile
    /\ cv_map2 = <<>>

\* FileTranslationIndex.from_file, then no record stored yet
Init ==
    /\ file_type \in available_convertors
    /\ project_path \in ProjectPaths
    /\ tables = [l \in Langs |-> <<>>]
    /\ stats = [l \in Langs |-> [total |-> 0, translated |-> 0]]
    /\ call = NoCall
    /\ ConvIdle

\* FileTranslationIndex.import_translations
import_translations ==
    /\ \E lang \in LangArgs, r \in ImportOutcomes(file_type) :
          IF is_blank(lang) \/ ~r.ok
          THEN /\ call' = [op |-> "import", lang |-> lang, translated_only |-> TRUE,
                           outcome |-> "raised", existed |-> FALSE,
                           data |-> Null, saved |-> <<>>]
               /\ UNCHANGED <<tables, stats>>
          ELSE /\ tables' = import_tables(tables, lang, project_path, r.val)
               /\ stats' = IF r.val # <<>>
                           THEN update_translation_stats(stats, tables', lang)
                           ELSE stats
               /\ call' = [op |-> "import", lang |-> lang, translated_only |-> TRUE,
                           outcome |-> "ok", existed |-> exists_lang(tables, lang),
                           data |-> r.val, saved |-> <<>>]
    /\ UNCHANGED <<file_type, project_path, conv_vars>>

\* FileTranslationIndex.export_translations
export_translations ==
    /\ \E lang \in LangArgs, translated_only \in BOOLEAN :
          IF is_blank(lang)
          THEN call' = [op |-> "export", lang |-> lang,
                        translated_only |-> translated_only,
                        outcome |-> "raised", existed |-> FALSE,
                        data |-> Null, saved |-> <<>>]
          ELSE LET saves == export_saves(file_type, project_path, tables, lang,
                                         translated_only)
               IN  call' = [op |-> "export", lang |-> lang,
                            translated_only |-> translated_only,
                            outcome |-> IF \E i \in 1..Len(saves) : ~saves[i].result.ok
                                        THEN "raised" ELSE "ok",
                            existed |-> exists_lang(tables, lang),
                            data |-> Null, saved |-> saves]
    /\ UNCHANGED <<file_type, project_path, tables, stats, conv_vars>>

Next == import_translations \/ export_translations

Spec == Init /\ [][Next]_vars

\* ------------------------------------------------------- convertor actions

\* a convertor is constructed on a source file, or handed a map to save
InitConv ==
    /\ IndexIdle
    /\ cv_type \in available_convertors
    /\ \/ /\ cv_origin = "file"
          /\ cv_phase = "src"
          /\ cv_file \in SourceFiles(cv_type)
          /\ cv_map = <<>>
       \/ /\ cv_origin = "given"
          /\ cv_phase = "map"
          /\ cv_file = EmptyFile
          /\ cv_map \in GivenMaps
    /\ cv_out = EmptyFile
    /\ cv_map2 = <<>>

\* get_text_map() on the source file
ConvGetTextMap ==
    /\ cv_phase = "src"
    /\ \E r \in get_text_map(cv_type, cv_file) :
          /\ cv_phase' = IF r.ok THEN "map" ELSE "raised"
          /\ cv_map' = r.val
    /\ UNCHANGED <<index_vars, cv_type, cv_origin, cv_file, cv_out, cv_map2>>

\* save_to(fn, tran_map) with the map at hand
ConvSaveTo ==
    /\ cv_phase = "map"
    /\ LET r == save_to(cv_type, cv_map)
       IN  /\ cv_phase' = IF r.ok THEN "out" ELSE "save_raised"
           /\ cv_out' = IF r.ok THEN r.val ELSE cv_out
    /\ UNCHANGED <<index_vars, cv_type, cv_origin, cv_file, cv_map, cv_map2>>

\* get_text_map() on the file save_to wrote
ConvReadBack ==
    /\ cv_phase = "out"
    /\ \E r \in get_text_map(cv_type, cv_out) :
          /\ cv_phase' = IF r.ok THEN "reread" ELSE "reread_raised"
          /\ cv_map2' = r.val
    /\ UNCHANGED <<index_vars, cv_type, cv_origin, cv_file, cv_map, cv_out>>

NextConv == ConvGetTextMap \/ ConvSaveTo \/ ConvReadBack

SpecConv == InitConv /\ [][NextConv]_vars

\* ------------------------------------------------------------------ claims

\* C1: an import_translations(lang) with a non-blank lang whose convertor
\* returned the empty TextMap returns normally and leaves the record set of
\* every language (and the statistics) as it was: nothing dropped or inserted.
C1_EmptyImportChangesNothing ==
    [][(call'.op = "import" /\ ~is_blank(call'.lang) /\ call'.data = <<>>)
        => (call'.outcome = "ok" /\ tables' = tables /\ stats' = stats)]_vars

\* an empty map was imported for a language that has stored records
C1_Witness ==
    /\ call.op = "import"
    /\ call.data = <<>>
    /\ call.lang \in Langs
    /\ tables[call.lang] # <<>>

\* C2: after an import_translations(lang) of a non-empty TextMap M the record
\* set of lang is exactly one record per entry of M, in M's order: identifier
\* and block text are the original text, the single String block carries M's
\* value (or None).  Nothing stored for lang before the call is left beside
\* them.
C2_ImportReplaces ==
    (call.op = "import" /\ call.data # Null /\ call.data # <<>>) =>
        LET t == tables[call.lang]
        IN  /\ Len(t) = Len(call.data)
            /\ \A i \in 1..Len(t) :
                  /\ t[i].identifier = call.data[i][1]
                  /\ t[i].language = call.lang
                  /\ t[i].linenumber = 0
                  /\ Len(t[i].block) = 1
                  /\ t[i].block[1].type = "String"
                  /\ t[i].block[1].what = call.data[i][1]
                  /\ t[i].block[1].new_code = call.data[i][2]

\* a map of one entry was imported over records stored before
C2_Witness ==
    /\ call.op = "import"
    /\ call.existed
    /\ call.data # Null
    /\ Len(call.data) = 1
    /\ Len(tables[call.lang]) = 1

\* C3: the TextMap export_translations hands to save_to: with translated_only
\* its pairs are exactly the (original, translated) pairs of the records with
\* a translation; without it there is one key per stored original text, mapped
\* to the translation when there is one and to the original text otherwise.
C3_ExportMap ==
    (call.op = "export" /\ call.saved # <<>>) =>
        LET t == tables[call.lang]
            m == call.saved[1].tran_map
        IN  /\ IsDict(m)
            /\ call.translated_only =>
                  {m[i] : i \in 1..Len(m)} =
                      {<<t[i].block[1].what, t[i].block[1].new_code>> :
                          i \in {j \in 1..Len(t) : t[j].block[1].new_code # Null}}
            /\ ~call.translated_only =>
                  /\ Keys(m) = {t[i].block[1].what : i \in 1..Len(t)}
                  /\ \A i \in 1..Len(t) :
                        Get(m, t[i].block[1].what) =
                            IF t[i].block[1].new_code # Null
                            THEN t[i].block[1].new_code
                            ELSE t[i].block[1].what

\* a translated-only export of a language holding a translated and an
\* untranslated record
C3_Witness ==
    /\ call.op = "export"
    /\ call.translated_only
    /\ call.saved # <<>>
    /\ \E i, j \in 1..Len(tables[call.lang]) :
          /\ tables[call.lang][i].block[1].new_code = Null
          /\ tables[call.lang][j].block[1].new_code # Null

\* C7: an export_translations(lang) with a non-blank lang changes no stored
\* record; it returns normally without any save_to when lang has no records or
\* when nothing is left to export (every record untranslated and
\* translated_only set), and calls save_to exactly once otherwise.
C7_ExportWritesOnlyData ==
    [][(call'.op = "export" /\ ~is_blank(call'.lang)) =>
        /\ tables' = tables
        /\ stats' = stats
        /\ IF \/ tables[call'.lang] = <<>>
              \/ /\ call'.translated_only
                 /\ \A i \in 1..Len(tables[call'.lang]) :
                       tables[call'.lang][i].block[1].new_code = Null
           THEN call'.saved = <<>> /\ call'.outcome = "ok"
           ELSE Len(call'.saved) = 1]_vars

\* an export of a language that has records, none of them translated, wrote
\* nothing
C7_Witness ==
    /\ call.op = "export"
    /\ call.outcome = "ok"
    /\ call.existed
    /\ call.saved = <<>>

\* fn is path with "_" and lang put in before the extension: the extension
\* is empty, or runs from the last dot of the last component, a dot that has
\* some other character before it in that component
IsDerivedPath(fn, path, lang) ==
    \E n \in 0..Len(path) :
        LET stem == SubSeq(path, 1, n)
            ext == SubSeq(path, n + 1, Len(path))
            base == n - rfind(stem, "/")
        IN  /\ fn = stem \o <<"_">> \o lang \o ext
            /\ \A i \in 2..Len(ext) : ext[i] \notin {".", "/"}
            /\ ext # <<>> =>
                  /\ ext[1] = "."
                  /\ \E i \in (n - base + 1)..n : stem[i] # "."
            /\ ext = <<>> =>
                  \A i \in (n - base + 1)..n :
                      stem[i] = "." => \A j \in (n - base + 1)..i : stem[j] = "."

\* C8: the only path export_translations writes is the project path with
\* "_<lang>" put in before its extension, and it differs from the project path.
C8_ExportPath ==
    \A i \in 1..Len(call.saved) :
        /\ IsDerivedPath(call.saved[i].fn, project_path, call.lang)
        /\ call.saved[i].fn # project_path

\* the export of lang "e" of /a.a wrote /a_e.a
C8_Witness ==
    /\ project_path = <<"/", "a", ".", "a">>
    /\ call.op = "export"
    /\ call.saved # <<>>
    /\ call.saved[1].fn = <<"/", "a", "_", "e", ".", "a">>

\* C10: no two stored records of a language have the same identifier.
C10_UniqueIdentifier ==
    \A l \in Langs : \A i, j \in 1..Len(tables[l]) :
        tables[l][i].identifier = tables[l][j].identifier => i = j

\* two records are stored after an import over earlier records
C10_Witness ==
    /\ call.op = "import"
    /\ call.existed
    /\ call.lang \in Langs
    /\ Len(tables[call.lang]) = 2

\* C4: a TextMap extracted from a file is saved without error, and extracting
\* the written file gives the same TextMap back.
C4_RoundTrip ==
    cv_origin = "file" =>
        /\ cv_phase \notin {"save_raised", "reread_raised"}
        /\ cv_phase = "reread" => cv_map2 = cv_map

\* C5: no entry of an extracted TextMap holds a string equal to its trimmed
\* key.
C5_SelfEqualIsNull ==
    (cv_origin = "file" /\ cv_phase = "map") =>
        \A i \in 1..Len(cv_map) : cv_map[i][2] # strip(cv_map[i][1])

\* C6: get_text_map on an existing file of zero bytes does not raise and
\* returns the empty TextMap.
C6_EmptyFileEmptyMap ==
    (cv_origin = "file" /\ cv_file = EmptyFile) =>
        /\ cv_phase # "raised"
        /\ cv_phase = "map" => cv_map = <<>>

\* C9: in the line-delimited variant a value holding a line break (and no
\* blank at either end, and other than its key) is read back unchanged from
\* the file save_to wrote.
C9_NewlineSurvives ==
    ( /\ cv_type = "xu"
      /\ cv_origin = "given"
      /\ cv_phase \in {"reread", "reread_raised"}
      /\ \A i \in 1..Len(cv_map) :
            /\ strip(cv_map[i][2]) = cv_map[i][2]
            /\ cv_map[i][2] # cv_map[i][1]
            /\ \E n \in 1..Len(cv_map[i][2]) : cv_map[i][2][n] \in {LF, CR} )
    => (cv_phase = "reread" /\ cv_map2 = cv_map)

====
